---- MODULE Spec2Model ----
(***************************************************************************)
(* Model of the CZDS request client (src/requests.go): the catalog         *)
(* readers GetRequests / GetTLDStatus / GetTerms, SubmitRequest, the       *)
(* report download DownloadAllRequests and the two helpers RequestTLDs and *)
(* RequestAllTLDs.  Every call site (a goroutine using the client) is a    *)
(* process; one step of a process is one remote call together with the     *)
(* local code that follows it up to the next remote call or the return.    *)
(*                                                                         *)
(* Go values: a slice is [isNil, elems] so that a nil slice and an empty   *)
(* non-nil slice are different values; an error is a sequence of strings   *)
(* and the nil error is the empty sequence.                                *)
(***************************************************************************)
EXTENDS Integers, Sequences, FiniteSets, TLC

VARIABLES
    termsVersion,   \* the remote: version of the terms it currently requires
    pc,             \* per call site: position in the running operation
    op,             \* per call site: operation invoked
    args,           \* per call site: the caller's arguments
    locals,         \* per call site: local variables of the running operation
    ret,            \* per call site: the values returned to the caller
    output,         \* per call site: bytes the caller's io.Writer received
    calls           \* per call site: remote calls of the invocation, in order

vars == <<termsVersion, pc, op, args, locals, ret, output, calls>>

----------------------------------------------------------------------------
(* Bounds of the model *)

MaxListing == 2     \* longest availability listing the remote returns
MaxTLDArgs == 2     \* longest tlds argument a caller passes to RequestTLDs
MaxBody    == 2     \* longest report body the transport returns
MaxItems   == 1     \* longest page of requests the remote returns

Procs    == {"c1", "c2"}        \* call sites
SeqProcs == {"c1"}              \* the call site of the sequential specification

TLDNames == {"bank", "xyz"}
Reasons  == {"", "renewal"}
Versions == {"v2", "v3"}
Bytes    == {"a", "b"}
BaseURLs == {"https://czds-api.icann.org", "https://czds-api.test"}

RECURSIVE SeqsUpTo(_, _)
SeqsUpTo(S, n) ==
    IF n = 0 THEN {<<>>}
    ELSE LET shorter == SeqsUpTo(S, n - 1)
         IN shorter \cup {Append(s, x) : s \in shorter, x \in S}

----------------------------------------------------------------------------
(* Constants of the source *)

RequestAll      == ""
RequestApproved == "Approved"

StatusAvailable == "available"
StatusSubmitted == "submitted"
StatusPending   == "pending"
StatusApproved  == "approved"
StatusDenied    == "denied"
StatusExpired   == "expired"
StatusRevoked   == "revoked"

Statuses == {StatusAvailable, StatusSubmitted, StatusPending, StatusApproved,
             StatusDenied, StatusExpired, StatusRevoked}

----------------------------------------------------------------------------
(* Go values *)

NoErr == <<>>                                   \* the nil error
Nil   == "nil"                                  \* a nil pointer / no body

NilSlice        == [isNil |-> TRUE,  elems |-> <<>>]
MakeSlice       == [isNil |-> FALSE, elems |-> <<>>]       \* make([]T, 0, n)
SliceOf(s)      == [isNil |-> FALSE, elems |-> s]
AppendSlice(s, x) == [isNil |-> FALSE, elems |-> Append(s.elems, x)]
LenSlice(s)     == Len(s.elems)

TLDStatus(tld, st) == [TLD |-> tld, CurrentStatus |-> st]

NewTerms == [Version |-> ""]                                  \* new(Terms)

(* *RequestsResponse: the nil pointer, and what new(RequestsResponse) points to *)
NilRequestsResponse == [isNil |-> TRUE,  Requests |-> NilSlice, TotalRequests |-> 0]

(* errors the invocation capability reports *)
RemoteErrs == {<<"TransportFailure">>, <<"Rejected">>}
(* errors io.Copy reports: the body's Read failed, or the sink's Write did *)
ReadErrs   == {<<"unexpected EOF">>}
WriteErrs  == {<<"short write">>}

----------------------------------------------------------------------------
(* The invocation capability (client.go, not part of src/): one remote     *)
(* operation, whose JSON response is decoded into dest as encoding/json    *)
(* does: an array makes a non-nil slice, null makes a nil slice, an absent *)
(* field leaves the destination as it was.                                 *)

JSONAbsent     == [kind |-> "absent", items |-> <<>>]
JSONNull       == [kind |-> "null",   items |-> <<>>]
JSONArray(s)   == [kind |-> "array",  items |-> s]

DecodeSlice(dest, j) ==
    CASE j.kind = "absent" -> dest
      [] j.kind = "null"   -> NilSlice
      [] j.kind = "array"  -> SliceOf(j.items)

Unmarshal(path, dest, json) ==
    CASE path = "/czds/terms/condition" -> [Version |-> json.version]
      [] path = "/czds/tlds"            -> DecodeSlice(dest, json)
      [] path = "/czds/requests/all"    ->
            [dest EXCEPT !.Requests      = DecodeSlice(dest.Requests, json.requests),
                         !.TotalRequests = json.totalRequests]
      [] OTHER -> dest

jsonAPI(method, path, body, dest, resp) ==
    [dest |-> IF resp.err = NoErr THEN Unmarshal(path, dest, resp.json) ELSE dest,
     err  |-> resp.err,
     call |-> [method |-> method, path |-> path, body |-> body, resp |-> resp]]

(* apiRequest(true, "GET", url, nil): the raw response, whose Body the      *)
(* caller reads: body are the bytes it yields, bodyErr how it ends (NoErr  *)
(* is io.EOF).                                                             *)
apiRequest(method, url, resp) ==
    [body |-> resp.body, bodyErr |-> resp.bodyErr, err |-> resp.err,
     call |-> [method |-> method, path |-> url, body |-> Nil, resp |-> resp]]

----------------------------------------------------------------------------
(* Catalog reader and submission service *)

(* faulty variant: Requests starts as an empty non-nil slice *)
NewRequestsResponseMade == [isNil |-> FALSE, Requests |-> MakeSlice, TotalRequests |-> 0]
NewRequestsResponse     == [isNil |-> FALSE, Requests |-> NilSlice,  TotalRequests |-> 0]

GetRequests(filter, resp) ==
    LET r == jsonAPI("POST", "/czds/requests/all", filter, NewRequestsResponse, resp)
    IN  [requests |-> r.dest, err |-> r.err, call |-> r.call]

GetTLDStatus(resp) ==
    LET r == jsonAPI("GET", "/czds/tlds", Nil, MakeSlice, resp)
    IN  [requests |-> r.dest, err |-> r.err, call |-> r.call]

GetTerms(resp) ==
    LET r == jsonAPI("GET", "/czds/terms/condition", Nil, NewTerms, resp)
    IN  [terms |-> r.dest, err |-> r.err, call |-> r.call]

SubmitRequest(request, resp) ==
    LET r == jsonAPI("POST", "/czds/requests/create", request, Nil, resp)   \* no dest
    IN  [err |-> r.err, call |-> r.call]

----------------------------------------------------------------------------
(* RequestTLDs *)

(* faulty variant: the error of GetTerms is not looked at *)
RequestTLDsTermsFailedNever(err) == FALSE
RequestTLDsTermsFailed(err) == err # NoErr

(* faulty variant: the version is whatever the remote requires when the    *)
(* request is built, not the one fetched                                   *)
RequestTLDsRequestCurrent(tlds, reason, terms) ==
    [AllTLDs |-> FALSE, TLDNames |-> tlds, Reason |-> reason,
     TcVersion |-> termsVersion, AdditionalFTPIps |-> NilSlice]
RequestTLDsRequest(tlds, reason, terms) ==
    [AllTLDs |-> FALSE, TLDNames |-> tlds, Reason |-> reason,
     TcVersion |-> terms.Version, AdditionalFTPIps |-> NilSlice]

----------------------------------------------------------------------------
(* RequestAllTLDs *)

(* faulty variant: revoked is left out *)
EligibleStatusNoRevoked(st) == st \in {StatusAvailable, StatusExpired, StatusDenied}
EligibleStatus(st) ==
    st \in {StatusAvailable, StatusExpired, StatusDenied, StatusRevoked}

(* the loop over status: requestTLDs after entries i.. have been visited *)
RECURSIVE AppendEligible(_, _, _)
AppendEligible(requestTLDs, status, i) ==
    IF i > Len(status) THEN requestTLDs
    ELSE AppendEligible(IF EligibleStatus(status[i].CurrentStatus)
                        THEN AppendSlice(requestTLDs, status[i].TLD)
                        ELSE requestTLDs,
                        status, i + 1)

(* faulty variant: every listed name is requested *)
EligibleTLDsUnfiltered(status) ==
    SliceOf([i \in 1..Len(status.elems) |-> status.elems[i].TLD])
EligibleTLDs(status) == AppendEligible(MakeSlice, status.elems, 1)

(* faulty variant: no early return *)
NoneToRequestNever(requestTLDs) == FALSE
NoneToRequest(requestTLDs) == LenSlice(requestTLDs) = 0

RequestAllTLDsStatusFailed(err) == err # NoErr
RequestAllTLDsTermsFailed(err)  == err # NoErr

(* the four return statements *)
ReturnStatusFailed(err)   == [tlds |-> NilSlice, err |-> err]
ReturnNone(requestTLDs)   == [tlds |-> requestTLDs, err |-> NoErr]
(* faulty variants of the returns *)
ReturnTermsFailedWithTLDs(requestTLDs, err) == [tlds |-> requestTLDs, err |-> err]
ReturnTermsFailed(requestTLDs, err) == [tlds |-> NilSlice, err |-> err]
ReturnSubmittedNilOnError(requestTLDs, err) ==
    [tlds |-> IF err # NoErr THEN NilSlice ELSE requestTLDs, err |-> err]
ReturnSubmitted(requestTLDs, err) == [tlds |-> requestTLDs, err |-> err]

(* faulty variant: AllTLDs is left false *)
RequestAllTLDsRequestNotAll(requestTLDs, reason, terms) ==
    [AllTLDs |-> FALSE, TLDNames |-> requestTLDs, Reason |-> reason,
     TcVersion |-> terms.Version, AdditionalFTPIps |-> NilSlice]
RequestAllTLDsRequest(requestTLDs, reason, terms) ==
    [AllTLDs |-> TRUE, TLDNames |-> requestTLDs, Reason |-> reason,
     TcVersion |-> terms.Version, AdditionalFTPIps |-> NilSlice]

----------------------------------------------------------------------------
(* DownloadAllRequests *)

ReportURL(baseURL) == <<baseURL, "/czds/requests/report">>

(* io.Copy(output, body): the sink takes k bytes; when it takes them all    *)
(* the copy ends as the body does, else its Write failed with writeErr     *)
ioCopy(out, body, bodyErr, k, writeErr) ==
    [output |-> out \o SubSeq(body, 1, k),
     n      |-> k,
     err    |-> IF k = Len(body) THEN bodyErr ELSE writeErr]

Errorf(url) == url \o <<" was empty">>          \* fmt.Errorf("%s was empty", url)

(* faulty variant: an empty report is a success *)
DownloadResultIgnoreEmpty(url, n, err) == err
DownloadResult(url, n, err) ==
    IF err # NoErr THEN err
    ELSE IF n = 0 THEN Errorf(url)
    ELSE NoErr

----------------------------------------------------------------------------
(* What the callers pass and what the remote answers *)

TLDArgs     == {NilSlice} \cup {SliceOf(t) : t \in SeqsUpTo(TLDNames, MaxTLDArgs)}
ConcTLDArgs == {SliceOf(<<"bank">>)}

(* CurrentStatus "should be set to one of the Status* constants"; the remote *)
(* may also send a value that is none of them                               *)
CurrentStatuses == Statuses \cup {RequestApproved}
Entries      == {TLDStatus(t, st) : t \in TLDNames, st \in CurrentStatuses}
Listings     == SeqsUpTo(Entries, MaxListing)
ConcListings == {<<TLDStatus("app", StatusPending)>>,
                 <<TLDStatus("bank", StatusAvailable), TLDStatus("app", StatusPending),
                   TLDStatus("xyz", StatusRevoked)>>}

Filters == {[Status |-> RequestAll, Filter |-> ""],
            [Status |-> RequestApproved, Filter |-> "bank"]}

Request(id) == [RequestID |-> id, TLD |-> "bank", Status |-> RequestApproved]

(* a failed call carries no decoded response: none is a placeholder of the *)
(* endpoint's response shape that nothing reads                           *)
Failed(none) ==
    {[err |-> e, json |-> none, body |-> <<>>, bodyErr |-> NoErr] : e \in RemoteErrs}
JSONNone     == [kind |-> "none", items |-> <<>>]
Success(json) == [err |-> NoErr, json |-> json, body |-> <<>>, bodyErr |-> NoErr]

TLDResponses(listings) ==
    Failed(JSONNone) \cup {Success(JSONNull)} \cup {Success(JSONArray(l)) : l \in listings}
TermsResponses  == Failed([version |-> ""]) \cup {Success([version |-> termsVersion])}
SubmitResponses == Failed(Nil) \cup {Success(Nil)}
RequestsResponses ==
    Failed([requests |-> JSONNone, totalRequests |-> 0]) \cup
    {Success([requests |-> j, totalRequests |-> Len(j.items) + more]) :
        j \in {JSONAbsent, JSONNull} \cup
              {JSONArray(l) : l \in SeqsUpTo({Request("r1")}, MaxItems)},
        more \in {0, 1}}
ReportResponses ==
    Failed(Nil) \cup
    {[err |-> NoErr, json |-> Nil, body |-> b, bodyErr |-> e] :
        b \in SeqsUpTo(Bytes, MaxBody), e \in ReadErrs \cup {NoErr}}

----------------------------------------------------------------------------
(* State *)

NoArgs   == [tlds |-> NilSlice, reason |-> "", filter |-> [Status |-> RequestAll, Filter |-> ""],
             baseURL |-> ""]
NoLocals == [status |-> NilSlice, requestTLDs |-> NilSlice, terms |-> NewTerms,
             body |-> <<>>, bodyErr |-> NoErr, n |-> 0, copyErr |-> NoErr]
NoRet    == [tlds |-> NilSlice, err |-> NoErr, requests |-> NilRequestsResponse]

Init ==
    /\ termsVersion \in Versions
    /\ pc     = [p \in Procs |-> "idle"]
    /\ op     = [p \in Procs |-> "none"]
    /\ args   = [p \in Procs |-> NoArgs]
    /\ locals = [p \in Procs |-> NoLocals]
    /\ ret    = [p \in Procs |-> NoRet]
    /\ output = [p \in Procs |-> <<>>]
    /\ calls  = [p \in Procs |-> <<>>]

Invoke(p, name, first, a) ==
    /\ pc[p] = "idle"
    /\ pc'   = [pc EXCEPT ![p] = first]
    /\ op'   = [op EXCEPT ![p] = name]
    /\ args' = [args EXCEPT ![p] = a]
    /\ UNCHANGED <<termsVersion, locals, ret, output, calls>>

Called(p, call) == calls' = [calls EXCEPT ![p] = Append(@, call)]
Goto(p, label)  == pc' = [pc EXCEPT ![p] = label]

(* the remote's terms change *)
RemoteTermsChange ==
    /\ \E v \in Versions \ {termsVersion} : termsVersion' = v
    /\ UNCHANGED <<pc, op, args, locals, ret, output, calls>>

(* the caller has its result and the call site is free again *)
Return(p) ==
    /\ pc[p] = "done"
    /\ pc'     = [pc EXCEPT ![p] = "idle"]
    /\ op'     = [op EXCEPT ![p] = "none"]
    /\ args'   = [args EXCEPT ![p] = NoArgs]
    /\ locals' = [locals EXCEPT ![p] = NoLocals]
    /\ ret'    = [ret EXCEPT ![p] = NoRet]
    /\ output' = [output EXCEPT ![p] = <<>>]
    /\ calls'  = [calls EXCEPT ![p] = <<>>]
    /\ UNCHANGED termsVersion

----------------------------------------------------------------------------
(* RequestTLDs(tlds, reason) *)

CallRequestTLDs(p, tldArgs) ==
    \E tlds \in tldArgs, reason \in Reasons :
        Invoke(p, "RequestTLDs", "RequestTLDs_GetTerms",
               [NoArgs EXCEPT !.tlds = tlds, !.reason = reason])

RequestTLDs_GetTerms(p) ==
    /\ pc[p] = "RequestTLDs_GetTerms"
    /\ \E resp \in TermsResponses :
         LET r == GetTerms(resp) IN
         /\ Called(p, r.call)
         /\ IF RequestTLDsTermsFailed(r.err)
            THEN /\ ret' = [ret EXCEPT ![p].err = r.err]
                 /\ Goto(p, "done")
                 /\ UNCHANGED locals
            ELSE /\ locals' = [locals EXCEPT ![p].terms = r.terms]
                 /\ Goto(p, "RequestTLDs_SubmitRequest")
                 /\ UNCHANGED ret
    /\ UNCHANGED <<termsVersion, op, args, output>>

RequestTLDs_SubmitRequest(p) ==
    /\ pc[p] = "RequestTLDs_SubmitRequest"
    /\ \E resp \in SubmitResponses :
         LET request == RequestTLDsRequest(args[p].tlds, args[p].reason, locals[p].terms)
             r       == SubmitRequest(request, resp)
         IN /\ Called(p, r.call)
            /\ ret' = [ret EXCEPT ![p].err = r.err]
            /\ Goto(p, "done")
    /\ UNCHANGED <<termsVersion, op, args, locals, output>>

----------------------------------------------------------------------------
(* RequestAllTLDs(reason) *)

CallRequestAllTLDs(p) ==
    \E reason \in Reasons :
        Invoke(p, "RequestAllTLDs", "RequestAllTLDs_GetTLDStatus",
               [NoArgs EXCEPT !.reason = reason])

RequestAllTLDs_GetTLDStatus(p, listings) ==
    /\ pc[p] = "RequestAllTLDs_GetTLDStatus"
    /\ \E resp \in TLDResponses(listings) :
         LET r           == GetTLDStatus(resp)
             requestTLDs == EligibleTLDs(r.requests)
         IN /\ Called(p, r.call)
            /\ IF RequestAllTLDsStatusFailed(r.err)
               THEN /\ ret' = [ret EXCEPT ![p] = [@ EXCEPT !.tlds = ReturnStatusFailed(r.err).tlds,
                                                          !.err  = ReturnStatusFailed(r.err).err]]
                    /\ Goto(p, "done")
                    /\ UNCHANGED locals
               ELSE /\ locals' = [locals EXCEPT ![p].status = r.requests,
                                                ![p].requestTLDs = requestTLDs]
                    /\ IF NoneToRequest(requestTLDs)
                       THEN /\ ret' = [ret EXCEPT ![p] = [@ EXCEPT !.tlds = ReturnNone(requestTLDs).tlds,
                                                                  !.err  = ReturnNone(requestTLDs).err]]
                            /\ Goto(p, "done")
                       ELSE /\ Goto(p, "RequestAllTLDs_GetTerms")
                            /\ UNCHANGED ret
    /\ UNCHANGED <<termsVersion, op, args, output>>

RequestAllTLDs_GetTerms(p) ==
    /\ pc[p] = "RequestAllTLDs_GetTerms"
    /\ \E resp \in TermsResponses :
         LET r == GetTerms(resp)
             v == ReturnTermsFailed(locals[p].requestTLDs, r.err)
         IN /\ Called(p, r.call)
            /\ IF RequestAllTLDsTermsFailed(r.err)
               THEN /\ ret' = [ret EXCEPT ![p] = [@ EXCEPT !.tlds = v.tlds, !.err = v.err]]
                    /\ Goto(p, "done")
                    /\ UNCHANGED locals
               ELSE /\ locals' = [locals EXCEPT ![p].terms = r.terms]
                    /\ Goto(p, "RequestAllTLDs_SubmitRequest")
                    /\ UNCHANGED ret
    /\ UNCHANGED <<termsVersion, op, args, output>>

RequestAllTLDs_SubmitRequest(p) ==
    /\ pc[p] = "RequestAllTLDs_SubmitRequest"
    /\ \E resp \in SubmitResponses :
         LET request == RequestAllTLDsRequest(locals[p].requestTLDs, args[p].reason,
                                              locals[p].terms)
             r       == SubmitRequest(request, resp)
             v       == ReturnSubmitted(locals[p].requestTLDs, r.err)
         IN /\ Called(p, r.call)
            /\ ret' = [ret EXCEPT ![p] = [@ EXCEPT !.tlds = v.tlds, !.err = v.err]]
            /\ Goto(p, "done")
    /\ UNCHANGED <<termsVersion, op, args, locals, output>>

----------------------------------------------------------------------------
(* GetRequests(filter) *)

CallGetRequests(p) ==
    \E filter \in Filters :
        Invoke(p, "GetRequests", "GetRequests_jsonAPI", [NoArgs EXCEPT !.filter = filter])

GetRequests_jsonAPI(p) ==
    /\ pc[p] = "GetRequests_jsonAPI"
    /\ \E resp \in RequestsResponses :
         LET r == GetRequests(args[p].filter, resp)
         IN /\ Called(p, r.call)
            /\ ret' = [ret EXCEPT ![p] = [@ EXCEPT !.requests = r.requests, !.err = r.err]]
            /\ Goto(p, "done")
    /\ UNCHANGED <<termsVersion, op, args, locals, output>>

----------------------------------------------------------------------------
(* DownloadAllRequests(output) *)

CallDownloadAllRequests(p) ==
    \E baseURL \in BaseURLs :
        Invoke(p, "DownloadAllRequests", "DownloadAllRequests_apiRequest",
               [NoArgs EXCEPT !.baseURL = baseURL])

DownloadAllRequests_apiRequest(p) ==
    /\ pc[p] = "DownloadAllRequests_apiRequest"
    /\ \E resp \in ReportResponses :
         LET r == apiRequest("GET", ReportURL(args[p].baseURL), resp)
         IN /\ Called(p, r.call)
            /\ IF r.err # NoErr
               THEN /\ ret' = [ret EXCEPT ![p].err = r.err]
                    /\ Goto(p, "done")
                    /\ UNCHANGED locals
               ELSE /\ locals' = [locals EXCEPT ![p].body = r.body, ![p].bodyErr = r.bodyErr]
                    /\ Goto(p, "DownloadAllRequests_Copy")
                    /\ UNCHANGED ret
    /\ UNCHANGED <<termsVersion, op, args, output>>

DownloadAllRequests_Copy(p) ==
    /\ pc[p] = "DownloadAllRequests_Copy"
    /\ \E k \in 0..Len(locals[p].body), w \in WriteErrs :
         LET c == ioCopy(output[p], locals[p].body, locals[p].bodyErr, k, w)
         IN /\ output' = [output EXCEPT ![p] = c.output]
            /\ locals' = [locals EXCEPT ![p].n = c.n, ![p].copyErr = c.err]
            /\ ret' = [ret EXCEPT ![p].err =
                           DownloadResult(ReportURL(args[p].baseURL), c.n, c.err)]
            /\ Goto(p, "done")
    /\ UNCHANGED <<termsVersion, op, args, calls>>

----------------------------------------------------------------------------
(* Specifications *)

OrchStep(p, listings, tldArgs) ==
    \/ CallRequestTLDs(p, tldArgs)
    \/ RequestTLDs_GetTerms(p)
    \/ RequestTLDs_SubmitRequest(p)
    \/ CallRequestAllTLDs(p)
    \/ RequestAllTLDs_GetTLDStatus(p, listings)
    \/ RequestAllTLDs_GetTerms(p)
    \/ RequestAllTLDs_SubmitRequest(p)
    \/ Return(p)

CatalogStep(p) ==
    \/ CallGetRequests(p)
    \/ GetRequests_jsonAPI(p)

ReportStep(p) ==
    \/ CallDownloadAllRequests(p)
    \/ DownloadAllRequests_apiRequest(p)
    \/ DownloadAllRequests_Copy(p)

(* one call site, one operation after another, every input *)
Next ==
    \/ \E p \in SeqProcs : OrchStep(p, Listings, TLDArgs) \/ CatalogStep(p) \/ ReportStep(p)
    \/ RemoteTermsChange

Spec == Init /\ [][Next]_vars

(* the call sites run the two helpers concurrently while the terms change *)
NextConc ==
    \/ \E p \in Procs : OrchStep(p, ConcListings, ConcTLDArgs)
    \/ RemoteTermsChange

SpecConc == Init /\ [][NextConc]_vars

----------------------------------------------------------------------------
(* Vocabulary of the properties *)

Done(p, name)    == pc[p] = "done" /\ op[p] = name
Running(p, name) == op[p] = name

PathTLDs   == "/czds/tlds"
PathTerms  == "/czds/terms/condition"
PathCreate == "/czds/requests/create"

Ok(call)     == call.resp.err = NoErr
NCalls(p)    == Len(calls[p])

(* the listing the remote returned to the invocation of p *)
Listing(p) == calls[p][1].resp.json.items

EligibleNames == {"available", "expired", "denied", "revoked"}

(* the tld names of the eligible entries of a listing, in the listing's order *)
Expected(listing) ==
    LET idx    == {i \in 1..Len(listing) : listing[i].CurrentStatus \in EligibleNames}
        nth(k) == CHOOSE i \in idx : Cardinality({j \in idx : j < i}) = k - 1
    IN  [k \in 1..Cardinality(idx) |-> listing[nth(k)].TLD]

NoDuplicates(s) == \A i, j \in 1..Len(s) : s[i] = s[j] => i = j

(* RequestAllTLDs of p has its listing *)
Listed(p) == Running(p, "RequestAllTLDs") /\ NCalls(p) >= 1 /\ Ok(calls[p][1])

TermsFetchFailed(p) == NCalls(p) >= 2 /\ ~Ok(calls[p][2])

----------------------------------------------------------------------------
(* C1: whatever listing the remote returns, RequestAllTLDs returns exactly *)
(* the tld names of the entries whose status is available, expired, denied *)
(* or revoked, in the listing's order, and returns an empty sequence if    *)
(* and only if the listing has no such entry.                              *)
C1_Original ==
    \A p \in Procs :
        Done(p, "RequestAllTLDs") /\ Listed(p) =>
            /\ ret[p].tlds.elems = Expected(Listing(p))
            /\ (LenSlice(ret[p].tlds) = 0) <=>
               (\A i \in 1..Len(Listing(p)) :
                    Listing(p)[i].CurrentStatus \notin EligibleNames)

(* C1 as amended: the same, for every invocation whose terms fetch, if     *)
(* one is made, does not fail.                                             *)
C1_Amended ==
    \A p \in Procs :
        Done(p, "RequestAllTLDs") /\ Listed(p) /\ ~TermsFetchFailed(p) =>
            /\ ret[p].tlds.elems = Expected(Listing(p))
            /\ (LenSlice(ret[p].tlds) = 0) <=>
               (\A i \in 1..Len(Listing(p)) :
                    Listing(p)[i].CurrentStatus \notin EligibleNames)

C1_Witness ==
    \E p \in Procs :
        /\ Done(p, "RequestAllTLDs") /\ NCalls(p) = 3 /\ ret[p].err = NoErr
        /\ Listing(p) = <<TLDStatus("xyz", StatusPending), TLDStatus("bank", StatusRevoked)>>
        /\ ret[p].tlds.elems = <<"bank">>

(* C2: when the listing succeeds and has no eligible entry, RequestAllTLDs *)
(* returns the empty set and no error, and the listing is the only remote  *)
(* call of the invocation: no terms fetch, no submit.                      *)
C2_ShortCircuit ==
    \A p \in Procs :
        Listed(p) /\ Expected(Listing(p)) = <<>> =>
            /\ pc[p] = "done"
            /\ NCalls(p) = 1 /\ calls[p][1].path = PathTLDs
            /\ ret[p].tlds.elems = <<>>
            /\ ret[p].err = NoErr

C2_Witness ==
    \E p \in Procs :
        /\ Done(p, "RequestAllTLDs") /\ Listed(p)
        /\ Listing(p) = <<TLDStatus("bank", StatusPending), TLDStatus("xyz", StatusApproved)>>
        /\ ret[p].tlds.elems = <<>> /\ ret[p].err = NoErr

(* C3: in every invocation of RequestTLDs or RequestAllTLDs, a submitted   *)
(* payload's TcVersion is the version that the one terms fetch of the same *)
(* invocation returned, however the invocations of the call sites and the  *)
(* changes of the remote's terms interleave.                               *)
C3_FreshTerms ==
    \A p \in Procs : \A i \in DOMAIN calls[p] :
        calls[p][i].path = PathCreate =>
            /\ i > 1
            /\ calls[p][i - 1].path = PathTerms /\ Ok(calls[p][i - 1])
            /\ calls[p][i].body.TcVersion = calls[p][i - 1].resp.json.version
            /\ \A j \in DOMAIN calls[p] : calls[p][j].path = PathTerms => j = i - 1

(* one call site has submitted v2 while the other, which fetched v3, is    *)
(* about to submit, and the remote is back at v2                           *)
C3_Witness ==
    /\ Done("c1", "RequestAllTLDs") /\ NCalls("c1") = 3
    /\ calls["c1"][3].body.TcVersion = "v2"
    /\ pc["c2"] = "RequestTLDs_SubmitRequest" /\ locals["c2"].terms.Version = "v3"
    /\ termsVersion = "v2"

(* C4: in DownloadAllRequests, when the remote call succeeds (the request  *)
(* and the reading of its body to the end) and the body yields zero bytes, *)
(* the call fails with the error that names the requested URL; when the    *)
(* body yields one byte or more and the copy does not fail, the call       *)
(* succeeds and the sink holds exactly the body's bytes, in order.         *)
C4_Report ==
    \A p \in Procs :
        Done(p, "DownloadAllRequests") /\ Ok(calls[p][1])
          /\ calls[p][1].resp.bodyErr = NoErr =>
            LET body == calls[p][1].resp.body IN
            /\ Len(body) = 0 =>
                   ret[p].err = <<args[p].baseURL, "/czds/requests/report", " was empty">>
            /\ Len(body) >= 1 /\ locals[p].copyErr = NoErr =>
                   ret[p].err = NoErr /\ output[p] = body

C4_Witness ==
    \E p \in Procs :
        /\ Done(p, "DownloadAllRequests") /\ Ok(calls[p][1])
        /\ calls[p][1].resp.bodyErr = NoErr /\ calls[p][1].resp.body = <<>>
        /\ args[p].baseURL = "https://czds-api.test"
        /\ ret[p].err = <<"https://czds-api.test", "/czds/requests/report", " was empty">>
        /\ output[p] = <<>>

(* C5: when RequestAllTLDs has a non-empty eligible set, its terms fetch   *)
(* succeeds and its submit fails, it returns the submit error together     *)
(* with the whole filtered set, not a nil or empty one.                    *)
C5_SubmitFailure ==
    \A p \in Procs :
        Done(p, "RequestAllTLDs") /\ NCalls(p) = 3 /\ ~Ok(calls[p][3]) =>
            /\ calls[p][3].path = PathCreate
            /\ ret[p].err = calls[p][3].resp.err
            /\ ~ret[p].tlds.isNil
            /\ ret[p].tlds.elems = Expected(Listing(p))
            /\ LenSlice(ret[p].tlds) > 0

C5_Witness ==
    \E p \in Procs :
        /\ Done(p, "RequestAllTLDs") /\ NCalls(p) = 3
        /\ calls[p][3].resp.err = <<"Rejected">> /\ ret[p].err = <<"Rejected">>
        /\ ret[p].tlds.elems = <<"xyz", "bank">>

(* C6: an invocation of RequestTLDs makes at most one terms fetch and at   *)
(* most one submit, the terms fetch first and the submit only after a      *)
(* successful terms fetch; it returns the error of the first failing step  *)
(* as the remote gave it, or nil when both succeed; nothing follows a      *)
(* failure.                                                                *)
C6_RequestTLDs ==
    \A p \in Procs :
        Running(p, "RequestTLDs") =>
            /\ NCalls(p) <= 2
            /\ NCalls(p) >= 1 => calls[p][1].path = PathTerms
            /\ NCalls(p) = 2  => calls[p][2].path = PathCreate /\ Ok(calls[p][1])
            /\ NCalls(p) >= 1 /\ ~Ok(calls[p][1]) => pc[p] = "done"
            /\ pc[p] = "done" =>
                 /\ NCalls(p) >= 1
                 /\ ret[p].err = calls[p][NCalls(p)].resp.err
                 /\ Ok(calls[p][1]) => NCalls(p) = 2

C6_Witness ==
    \E p \in Procs :
        /\ Done(p, "RequestTLDs") /\ NCalls(p) = 1
        /\ calls[p][1].resp.err = <<"TransportFailure">>
        /\ ret[p].err = <<"TransportFailure">>

(* C7: every payload handed to submit has a non-empty reason and a         *)
(* non-empty tldNames without duplicates, whatever the caller passes and   *)
(* whatever listing the remote returns.                                    *)
C7_Original ==
    \A p \in Procs : \A i \in DOMAIN calls[p] :
        calls[p][i].path = PathCreate =>
            /\ calls[p][i].body.Reason # ""
            /\ LenSlice(calls[p][i].body.TLDNames) > 0
            /\ NoDuplicates(calls[p][i].body.TLDNames.elems)

(* C7 as amended: a payload handed to submit carries the caller's reason   *)
(* as given, empty or not; from RequestTLDs its tldNames are the caller's  *)
(* tlds as given, be they nil, empty or with duplicates; from              *)
(* RequestAllTLDs its tldNames are the eligible names of the listing, of   *)
(* which there is at least one, with a name twice exactly when the listing *)
(* has two eligible entries of that name.                                  *)
C7_Amended ==
    \A p \in Procs : \A i \in DOMAIN calls[p] :
        calls[p][i].path = PathCreate =>
            /\ calls[p][i].body.Reason = args[p].reason
            /\ Running(p, "RequestTLDs") => calls[p][i].body.TLDNames = args[p].tlds
            /\ Running(p, "RequestAllTLDs") =>
                 /\ calls[p][i].body.TLDNames = SliceOf(Expected(Listing(p)))
                 /\ LenSlice(calls[p][i].body.TLDNames) > 0

C7_Witness ==
    \E p \in Procs :
        /\ Done(p, "RequestAllTLDs") /\ NCalls(p) = 3
        /\ calls[p][3].body.Reason = ""
        /\ calls[p][3].body.TLDNames.elems = <<"bank", "bank">>

(* C8: when nothing matches, GetRequests succeeds with an empty, non-nil   *)
(* Requests, whether the remote answers with an empty list, with null or   *)
(* with no list field.                                                     *)
C8_Original ==
    \A p \in Procs :
        Done(p, "GetRequests") /\ Ok(calls[p][1])
          /\ calls[p][1].resp.json.requests.items = <<>> =>
            /\ ret[p].err = NoErr
            /\ ~ret[p].requests.isNil
            /\ ~ret[p].requests.Requests.isNil
            /\ LenSlice(ret[p].requests.Requests) = 0

(* C8 as amended: GetRequests returns a non-nil response and the error of  *)
(* the remote call as it is; when the call succeeds and nothing matches,   *)
(* Requests has length 0, and it is the nil slice exactly when the remote  *)
(* sent null or no list field, an empty non-nil slice when it sent an      *)
(* empty list.                                                             *)
C8_Amended ==
    \A p \in Procs :
        Done(p, "GetRequests") =>
            /\ ~ret[p].requests.isNil
            /\ ret[p].err = calls[p][1].resp.err
            /\ Ok(calls[p][1]) /\ calls[p][1].resp.json.requests.items = <<>> =>
                 /\ LenSlice(ret[p].requests.Requests) = 0
                 /\ ret[p].requests.Requests.isNil <=>
                        calls[p][1].resp.json.requests.kind \in {"absent", "null"}

C8_Witness ==
    \E p \in Procs :
        /\ Done(p, "GetRequests") /\ Ok(calls[p][1])
        /\ calls[p][1].resp.json.requests.kind = "absent"
        /\ ret[p].err = NoErr /\ ret[p].requests.Requests.isNil

(* C9: an invocation of RequestAllTLDs with a non-empty eligible set calls *)
(* the remote in the order listing, terms fetch, submit, each at most once *)
(* and nothing between the terms fetch and the submit; the one payload     *)
(* submitted has AllTLDs true, the caller's reason, and the TLDNames that  *)
(* are returned to the caller.                                             *)
C9_Order ==
    \A p \in Procs :
        Listed(p) /\ Expected(Listing(p)) # <<>> =>
            /\ NCalls(p) <= 3
            /\ \A i \in DOMAIN calls[p] :
                   calls[p][i].path = <<PathTLDs, PathTerms, PathCreate>>[i]
            /\ NCalls(p) = 3 =>
                 /\ calls[p][3].body.AllTLDs = TRUE
                 /\ calls[p][3].body.Reason = args[p].reason
                 /\ pc[p] = "done"
                 /\ calls[p][3].body.TLDNames = ret[p].tlds
                 /\ LenSlice(ret[p].tlds) > 0

C9_Witness ==
    \E p \in Procs :
        /\ Done(p, "RequestAllTLDs") /\ NCalls(p) = 3 /\ ret[p].err = NoErr
        /\ calls[p][3].body = [AllTLDs |-> TRUE, TLDNames |-> SliceOf(<<"bank", "xyz">>),
                               Reason |-> "renewal", TcVersion |-> "v3",
                               AdditionalFTPIps |-> NilSlice]
        /\ ret[p].tlds.elems = <<"bank", "xyz">>

(* C10: when the listing fails, RequestAllTLDs returns that error with a   *)
(* nil set and makes no terms fetch and no submit; when the eligible set   *)
(* is non-empty and the terms fetch fails, it returns that error with a    *)
(* nil set and makes no submit.  A non-nil set is returned only by the     *)
(* short-circuit or after submit was invoked.                              *)
C10_EarlyFailures ==
    \A p \in Procs :
        Running(p, "RequestAllTLDs") =>
            /\ NCalls(p) >= 1 /\ ~Ok(calls[p][1]) =>
                 /\ pc[p] = "done" /\ NCalls(p) = 1
                 /\ ret[p].tlds.isNil /\ ret[p].err = calls[p][1].resp.err
            /\ TermsFetchFailed(p) =>
                 /\ pc[p] = "done" /\ NCalls(p) = 2
                 /\ ret[p].tlds.isNil /\ ret[p].err = calls[p][2].resp.err
            /\ pc[p] = "done" /\ ~ret[p].tlds.isNil =>
                 \/ NCalls(p) = 1 /\ Ok(calls[p][1]) /\ Expected(Listing(p)) = <<>>
                 \/ NCalls(p) = 3 /\ calls[p][3].path = PathCreate

C10_Witness ==
    \E p \in Procs :
        /\ Done(p, "RequestAllTLDs") /\ NCalls(p) = 2
        /\ calls[p][2].path = PathTerms /\ calls[p][2].resp.err = <<"TransportFailure">>
        /\ LenSlice(locals[p].requestTLDs) = 2
        /\ ret[p].tlds.isNil /\ ret[p].err = <<"TransportFailure">>

====
